---- MODULE Spec2Model ----
(***************************************************************************)
(* Model of the opinion form client: the signupAction form action and the  *)
(* NewOpinion form state, the per-opinion optimistic vote controller, the  *)
(* OpinionsContextProvider store operation upvoteOpinion, and the useInput *)
(* hook.                                                                   *)
(***************************************************************************)
EXTENDS Integers, Sequences, FiniteSets, TLC

VARIABLES
    formState,          \* NewOpinion: state held by useActionState(signupAction, ...)
    formData,           \* the FormData of the last submission handed to signupAction
    defaultInputValue,  \* useInput: the defaultInputValue argument
    validationFn,       \* useInput: the validationFn argument
    userInput,          \* useInput: useState(defaultInputValue)
    didEdit,            \* useInput: useState(false)
    lastEvent,          \* useInput: the handler that ran last
    opinions,           \* OpinionsContextProvider: the opinions state
    lastCall,           \* the last direct call of a store operation
    actions             \* per opinion id, the vote actions that have not returned

formVars == <<formState, formData>>

inputVars == <<defaultInputValue, validationFn, userInput, didEdit, lastEvent>>

storeVars == <<opinions, lastCall>>

vars == <<formState, formData,
          defaultInputValue, validationFn, userInput, didEdit, lastEvent,
          opinions, lastCall, actions>>

-----------------------------------------------------------------------------
(* Bounds *)

MaxLen == 2             \* longest string typed into a text field

MaxOpinions == 2        \* most opinions held by the store

MaxVotes == 2           \* votes stay within -MaxVotes..MaxVotes

-----------------------------------------------------------------------------
(* JavaScript values *)

Null == [kind |-> "null"]

Array(items) == [kind |-> "array", items |-> items]

Undefined == [kind |-> "undefined"]

\* Strings are sequences of characters; " " stands for the white space
\* characters String.prototype.trim removes, "a" for any other character.
Chars == {" ", "a"}

WhiteSpace == {" "}

Strings == UNION {[1..n -> Chars] : n \in 0..MaxLen}

RECURSIVE trimStart(_)
trimStart(s) ==
    IF s # <<>> /\ Head(s) \in WhiteSpace THEN trimStart(Tail(s)) ELSE s

RECURSIVE trimEnd(_)
trimEnd(s) ==
    IF s # <<>> /\ s[Len(s)] \in WhiteSpace
    THEN trimEnd(SubSeq(s, 1, Len(s) - 1))
    ELSE s

trim(s) == trimEnd(trimStart(s))

isNotEmpty(value) == trim(value) # <<>>

-----------------------------------------------------------------------------
(* useInput hook *)

\* The validation functions handed to the hook.
ValidationFns == {"isNotEmpty", "acceptAll", "rejectAll"}

Validate(fn, value) ==
    CASE fn = "isNotEmpty" -> isNotEmpty(value)
      [] fn = "acceptAll" -> TRUE
      [] fn = "rejectAll" -> FALSE

\* const valueIsValid = validationFn(defaultInputValue)
valueIsValid == Validate(validationFn, defaultInputValue)

\* the value and hasError members of the object the hook returns
value == userInput

hasError == didEdit /\ ~valueIsValid

InputUnused ==
    /\ defaultInputValue = <<>>
    /\ validationFn = "acceptAll"
    /\ userInput = <<>>
    /\ didEdit = FALSE
    /\ lastEvent = "none"

InputInit ==
    /\ defaultInputValue \in Strings
    /\ validationFn \in ValidationFns
    /\ userInput = defaultInputValue
    /\ didEdit = FALSE
    /\ lastEvent = "none"

handleUserInput(eventTargetValue) ==
    /\ userInput' = eventTargetValue
    /\ didEdit' = FALSE
    /\ lastEvent' = "input"
    /\ UNCHANGED <<defaultInputValue, validationFn>>
    /\ UNCHANGED <<formVars, storeVars, actions>>

handleInputBlur ==
    /\ didEdit' = TRUE
    /\ lastEvent' = "blur"
    /\ UNCHANGED <<defaultInputValue, validationFn, userInput>>
    /\ UNCHANGED <<formVars, storeVars, actions>>

-----------------------------------------------------------------------------
(* OpinionsContextProvider: the shared opinion store *)

OpinionIds == 1..(MaxOpinions + 1)

\* an opinion as created from a validated form submission
Opinion(id, title, votes) ==
    [id |-> id, userName |-> <<"a">>, title |-> title,
     body |-> <<"a", " ">>, votes |-> votes]

Opinions ==
    {Opinion(id, title, votes) :
        id \in OpinionIds, title \in {<<"a">>, <<"a", "a">>}, votes \in -1..1}

\* lists of opinions with pairwise distinct ids
OpinionLists ==
    {l \in UNION {[1..n -> Opinions] : n \in 0..MaxOpinions} :
        \A i, j \in 1..Len(l) : l[i].id = l[j].id => i = j}

\* upvoteOpinion incrementing every opinion of the list
upvoteOpinion_all(prevOpinions, id) ==
    [i \in 1..Len(prevOpinions) |->
        [prevOpinions[i] EXCEPT !.votes = @ + 1]]

\* the updater upvoteOpinion passes to setOpinions
upvoteOpinion(prevOpinions, id) ==
    [i \in 1..Len(prevOpinions) |->
        IF prevOpinions[i].id = id
        THEN [prevOpinions[i] EXCEPT !.votes = @ + 1]
        ELSE prevOpinions[i]]

downvoteOpinion(prevOpinions, id) ==
    [i \in 1..Len(prevOpinions) |->
        IF prevOpinions[i].id = id
        THEN [prevOpinions[i] EXCEPT !.votes = @ - 1]
        ELSE prevOpinions[i]]

StoreUnused ==
    /\ opinions = <<>>
    /\ lastCall = Null
    /\ actions = <<>>

\* a consumer of the context calls upvoteOpinion(id)
CallUpvoteOpinion(id) ==
    /\ \A i \in 1..Len(opinions) : opinions[i].votes < MaxVotes
    /\ lastCall' = [id |-> id, prevOpinions |-> opinions]
    /\ opinions' = upvoteOpinion(opinions, id)
    /\ UNCHANGED <<formVars, inputVars, actions>>

-----------------------------------------------------------------------------
(* Opinion: the per-opinion vote controller *)

\* the votes prop of the Opinion component of opinion id
votesOf(id) ==
    opinions[CHOOSE i \in 1..Len(opinions) : opinions[i].id = id].votes

\* the optimistic reducer with its two branches swapped
optimisticReducer_swapped(prevVotes, mode) ==
    IF mode = "up" THEN prevVotes - 1 ELSE prevVotes + 1

\* the reducer handed to useOptimistic
optimisticReducer(prevVotes, mode) ==
    IF mode = "up" THEN prevVotes + 1 ELSE prevVotes - 1

RECURSIVE applyUpdates(_, _)
applyUpdates(state, acts) ==
    IF acts = <<>> THEN state
    ELSE applyUpdates(optimisticReducer(state, Head(acts).mode), Tail(acts))

\* useOptimistic(votes, reducer): votes while no action is pending, else the
\* reducer applied to votes for every update of a pending action
optimisticVotes(id) == applyUpdates(votesOf(id), actions[id])

\* the isPending flags of useActionState(upvoteAction / downvoteAction)
upvotePending(id) == \E k \in 1..Len(actions[id]) : actions[id][k].mode = "up"

downvotePending(id) == \E k \in 1..Len(actions[id]) : actions[id][k].mode = "down"

\* an upvote button that is never disabled
upvoteDisabled_never(id) == FALSE

\* an upvote button disabled by its own pending flag only
upvoteDisabled_ownPending(id) == upvotePending(id)

\* disabled={upvotePending || downvotePending}
upvoteDisabled(id) == upvotePending(id) \/ downvotePending(id)

downvoteDisabled(id) == upvotePending(id) \/ downvotePending(id)

VoteInit ==
    /\ opinions = [id \in 1..MaxOpinions |-> Opinion(id, <<"a">>, 0)]
    /\ actions = [id \in 1..MaxOpinions |-> <<>>]
    /\ lastCall = Null

\* upvoteAction writing the vote into the store at once instead of setting an
\* optimistic update
upvoteAction_eagerStore(id) ==
    /\ ~upvoteDisabled(id)
    /\ votesOf(id) < MaxVotes
    /\ opinions' = upvoteOpinion(opinions, id)
    /\ actions' = [actions EXCEPT ![id] =
            Append(@, [mode |-> "up", stage |-> "committing",
                       base |-> votesOf(id)])]
    /\ UNCHANGED <<formVars, inputVars, lastCall>>

\* upvoteAction up to its await: the optimistic update is set and the commit
\* upvoteOpinion(id) is issued
upvoteAction(id) ==
    /\ ~upvoteDisabled(id)
    /\ votesOf(id) < MaxVotes
    /\ actions' = [actions EXCEPT ![id] =
            Append(@, [mode |-> "up", stage |-> "committing",
                       base |-> votesOf(id)])]
    /\ UNCHANGED <<formVars, inputVars, opinions, lastCall>>

downvoteAction(id) ==
    /\ ~downvoteDisabled(id)
    /\ votesOf(id) > -MaxVotes
    /\ actions' = [actions EXCEPT ![id] =
            Append(@, [mode |-> "down", stage |-> "committing",
                       base |-> votesOf(id)])]
    /\ UNCHANGED <<formVars, inputVars, opinions, lastCall>>

\* the commit of the k-th pending action succeeds: the store applies the vote
CommitSucceeds(id, k) ==
    /\ actions[id][k].stage = "committing"
    /\ opinions' = IF actions[id][k].mode = "up"
                   THEN upvoteOpinion(opinions, id)
                   ELSE downvoteOpinion(opinions, id)
    /\ actions' = [actions EXCEPT ![id][k].stage = "resolved"]
    /\ UNCHANGED <<formVars, inputVars, lastCall>>

\* the commit fails: the store is left alone
CommitFails(id, k) ==
    /\ actions[id][k].stage = "committing"
    /\ actions' = [actions EXCEPT ![id][k].stage = "rejected"]
    /\ UNCHANGED <<formVars, inputVars, opinions, lastCall>>

\* an action that never returns once its commit has failed
ActionReturns_onSuccessOnly(id, k) ==
    /\ actions[id][k].stage = "resolved"
    /\ actions' = [actions EXCEPT ![id] =
            SubSeq(@, 1, k - 1) \o SubSeq(@, k + 1, Len(@))]
    /\ UNCHANGED <<formVars, inputVars, opinions, lastCall>>

\* the action resumes after its await and returns: its pending flag falls and
\* its optimistic update is dropped
ActionReturns(id, k) ==
    /\ actions[id][k].stage \in {"resolved", "rejected"}
    /\ actions' = [actions EXCEPT ![id] =
            SubSeq(@, 1, k - 1) \o SubSeq(@, k + 1, Len(@))]
    /\ UNCHANGED <<formVars, inputVars, opinions, lastCall>>

-----------------------------------------------------------------------------
(* NewOpinion form *)

FormDatas == [userName : Strings, title : Strings, body : Strings]

\* signupAction stopping at the first violation (an else-if chain)
signupAction_firstOnly(prevFormState, fd) ==
    LET errors == IF ~isNotEmpty(fd.userName)
                  THEN <<"Please Enter a valid username">>
                  ELSE IF ~isNotEmpty(fd.title)
                  THEN <<"Please Enter a valid title">>
                  ELSE IF ~isNotEmpty(fd.body)
                  THEN <<"Please Enter a valid body">>
                  ELSE <<>>
    IN  IF Len(errors) # 0
        THEN [errors |-> Array(errors),
              enteredValues |-> [userName |-> fd.userName,
                                 title |-> fd.title,
                                 body |-> fd.body]]
        ELSE [errors |-> Null]

\* signupAction echoing the trimmed values
signupAction_trimmed(prevFormState, fd) ==
    LET e1 == IF ~isNotEmpty(fd.userName)
              THEN <<"Please Enter a valid username">> ELSE <<>>
        e2 == IF ~isNotEmpty(fd.title)
              THEN Append(e1, "Please Enter a valid title") ELSE e1
        errors == IF ~isNotEmpty(fd.body)
                  THEN Append(e2, "Please Enter a valid body") ELSE e2
    IN  IF Len(errors) # 0
        THEN [errors |-> Array(errors),
              enteredValues |-> [userName |-> trim(fd.userName),
                                 title |-> trim(fd.title),
                                 body |-> trim(fd.body)]]
        ELSE [errors |-> Null]

\* signupAction merging its result into the previous state ({...prev, errors})
signupAction_keepPrev(prevFormState, fd) ==
    LET e1 == IF ~isNotEmpty(fd.userName)
              THEN <<"Please Enter a valid username">> ELSE <<>>
        e2 == IF ~isNotEmpty(fd.title)
              THEN Append(e1, "Please Enter a valid title") ELSE e1
        errors == IF ~isNotEmpty(fd.body)
                  THEN Append(e2, "Please Enter a valid body") ELSE e2
    IN  IF Len(errors) # 0
        THEN [errors |-> Array(errors),
              enteredValues |-> [userName |-> fd.userName,
                                 title |-> fd.title,
                                 body |-> fd.body]]
        ELSE [prevFormState EXCEPT !.errors = Null]

signupAction(prevFormState, fd) ==
    LET userName == fd.userName
        title == fd.title
        body == fd.body
        e1 == IF ~isNotEmpty(userName)
              THEN <<"Please Enter a valid username">> ELSE <<>>
        e2 == IF ~isNotEmpty(title)
              THEN Append(e1, "Please Enter a valid title") ELSE e1
        errors == IF ~isNotEmpty(body)
                  THEN Append(e2, "Please Enter a valid body") ELSE e2
    IN  IF Len(errors) # 0
        THEN [errors |-> Array(errors),
              enteredValues |-> [userName |-> userName,
                                 title |-> title,
                                 body |-> body]]
        ELSE [errors |-> Null]

\* formState.enteredValues?.<field>, the defaultValue of a form control
defaultValue(field) ==
    IF "enteredValues" \in DOMAIN formState
    THEN formState.enteredValues[field]
    ELSE Undefined

FormInit ==
    /\ formState = [errors |-> Null]
    /\ formData = Null
    /\ InputUnused
    /\ StoreUnused

\* The form is submitted: useActionState calls signupAction with the current
\* state and the submitted FormData and stores the result.
Submit(fd) ==
    /\ formData' = fd
    /\ formState' = signupAction(formState, fd)
    /\ UNCHANGED <<inputVars, storeVars, actions>>

FormNext == \E fd \in FormDatas : Submit(fd)

SpecForm == FormInit /\ [][FormNext]_vars

-----------------------------------------------------------------------------
(* Properties of the form *)

\* A field is empty when it holds nothing but white space.
IsBlank(s) == \A i \in 1..Len(s) : s[i] \in WhiteSpace

FieldMessages ==
    <<[field |-> "userName", message |-> "Please Enter a valid username"],
      [field |-> "title", message |-> "Please Enter a valid title"],
      [field |-> "body", message |-> "Please Enter a valid body"]>>

\* the messages shown next to the form (none when errors is null)
ShownErrors == IF formState.errors = Null THEN <<>> ELSE formState.errors.items

BlankFields(fd) == {i \in 1..3 : IsBlank(fd[FieldMessages[i].field])}

\* C1: after every submission the error list holds exactly one message per
\* field that is empty after trimming, none for a non-empty field, in the
\* order userName, title, body; all violations are collected.
C1_OneMessagePerEmptyField ==
    formData # Null =>
        /\ Len(ShownErrors) = Cardinality(BlankFields(formData))
        /\ \A i \in 1..3 :
              LET before == Cardinality({j \in BlankFields(formData) : j < i})
              IN  i \in BlankFields(formData) =>
                      ShownErrors[before + 1] = FieldMessages[i].message

\* two fields empty (one of them white space only), both reported in order
C1_Witness ==
    /\ formData # Null
    /\ formData.userName = <<" ">>
    /\ formData.title = <<"a">>
    /\ formData.body = <<>>
    /\ ShownErrors = <<"Please Enter a valid username",
                       "Please Enter a valid body">>

\* C2: a rejected submission echoes userName, title and body exactly as
\* submitted (untrimmed, the valid fields included), and the form controls
\* take them as their default values.
C2_RejectionEchoesInput ==
    (formData # Null /\ BlankFields(formData) # {}) =>
        /\ "enteredValues" \in DOMAIN formState
        /\ formState.enteredValues = formData
        /\ \A f \in {"userName", "title", "body"} : defaultValue(f) = formData[f]

\* a rejected submission whose valid field carries surrounding white space
C2_Witness ==
    /\ formData # Null
    /\ formData.userName = <<>>
    /\ formData.title = <<" ", "a">>
    /\ formData.body = <<"a", " ">>
    /\ defaultValue("title") = <<" ", "a">>

\* C3: after a submission with all three fields non-empty after trimming the
\* form state has no error list and no enteredValues, whatever the form state
\* was before (the state is reached from every earlier form state).
C3_ValidSubmissionClears ==
    (formData # Null /\ BlankFields(formData) = {}) =>
        /\ formState.errors = Null
        /\ "enteredValues" \notin DOMAIN formState
        /\ formState = [errors |-> Null]

\* an accepted submission; the form shows no errors and no echoed values
C3_Witness ==
    /\ formData # Null
    /\ BlankFields(formData) = {}
    /\ formData.title = <<" ", "a">>
    /\ ShownErrors = <<>>
    /\ defaultValue("title") = Undefined

-----------------------------------------------------------------------------
(* useInput alone *)

SpecInputInit ==
    /\ InputInit
    /\ formState = [errors |-> Null]
    /\ formData = Null
    /\ StoreUnused

SpecInputNext ==
    \/ \E v \in Strings : handleUserInput(v)
    \/ handleInputBlur

SpecInput == SpecInputInit /\ [][SpecInputNext]_vars

\* C10: hasError is true exactly when the last event was a blur and the
\* hook's current value fails validationFn; after handleUserInput hasError
\* is false.
C10_HasErrorTracksCurrentValue ==
    /\ hasError <=> (lastEvent = "blur" /\ ~Validate(validationFn, value))
    /\ lastEvent = "input" => ~hasError

-----------------------------------------------------------------------------
(* The store operation alone *)

SpecStoreInit ==
    /\ opinions \in OpinionLists
    /\ lastCall = Null
    /\ actions = <<>>
    /\ formState = [errors |-> Null]
    /\ formData = Null
    /\ InputUnused

SpecStoreNext == \E id \in OpinionIds : CallUpvoteOpinion(id)

SpecStore == SpecStoreInit /\ [][SpecStoreNext]_vars

\* C9: upvoteOpinion(id) adds exactly 1 to the votes of the opinion with that
\* id and changes nothing else: not the other opinions, not the other fields
\* of the matched one, not the length or order of the list; with no such
\* opinion the list is unchanged.
C9_UpvoteChangesOnlyMatchedVotes ==
    lastCall # Null =>
        LET prev == lastCall.prevOpinions
        IN  /\ Len(opinions) = Len(prev)
            /\ \A i \in 1..Len(prev) :
                  IF prev[i].id = lastCall.id
                  THEN /\ opinions[i].votes = prev[i].votes + 1
                       /\ opinions[i].id = prev[i].id
                       /\ opinions[i].userName = prev[i].userName
                       /\ opinions[i].title = prev[i].title
                       /\ opinions[i].body = prev[i].body
                  ELSE opinions[i] = prev[i]
            /\ (\A i \in 1..Len(prev) : prev[i].id # lastCall.id) =>
                  opinions = prev

\* the second of two opinions upvoted from 1 to 2, the first left alone
C9_Witness ==
    /\ lastCall # Null
    /\ Len(opinions) = 2
    /\ opinions[2].id = lastCall.id
    /\ lastCall.prevOpinions[2].votes = 1
    /\ opinions[2].votes = 2
    /\ opinions[1] = lastCall.prevOpinions[1]

-----------------------------------------------------------------------------
(* The vote controllers over the store *)

SpecVoteInit ==
    /\ VoteInit
    /\ formState = [errors |-> Null]
    /\ formData = Null
    /\ InputUnused

SpecVoteNext ==
    \/ \E id \in 1..MaxOpinions : upvoteAction(id)
    \/ \E id \in 1..MaxOpinions : downvoteAction(id)
    \/ \E id \in 1..MaxOpinions : \E k \in 1..Len(actions[id]) :
            CommitSucceeds(id, k)
    \/ \E id \in 1..MaxOpinions : \E k \in 1..Len(actions[id]) :
            CommitFails(id, k)
    \/ \E id \in 1..MaxOpinions : \E k \in 1..Len(actions[id]) :
            ActionReturns(id, k)

SpecVote == SpecVoteInit /\ [][SpecVoteNext]_vars

\* Every commit settles, and a settled action resumes and returns.
FairSpecVote ==
    /\ SpecVote
    /\ \A id \in 1..MaxOpinions :
          /\ WF_vars(\E k \in 1..Len(actions[id]) :
                  CommitSucceeds(id, k) \/ CommitFails(id, k))
          /\ WF_vars(\E k \in 1..Len(actions[id]) : ActionReturns(id, k))

Delta(mode) == IF mode = "up" THEN 1 ELSE -1

Abs(n) == IF n < 0 THEN -n ELSE n

C5_FailedCommitLeavesStore ==
    [][\A id \in 1..MaxOpinions :
          (actions[id] # <<>> /\ actions'[id] # actions[id]
             /\ (actions'[id] = <<>> \/ actions'[id][1].stage = "rejected")
             /\ actions[id][1].stage # "resolved") =>
                /\ opinions' = opinions
                /\ votesOf(id)' = actions[id][1].base]_vars

\* a failed upvote: the store still holds the count from before the click
\* while the shadow still shows one more
C5_Witness ==
    \E id \in 1..MaxOpinions :
        /\ actions[id] = <<[mode |-> "up", stage |-> "rejected", base |-> 1]>>
        /\ votesOf(id) = 1
        /\ optimisticVotes(id) = 2

\* C6: the count shown for an opinion never differs from its authoritative
\* count by more than 1.
C6_DeltaAtMostOne ==
    \A id \in 1..MaxOpinions : Abs(optimisticVotes(id) - votesOf(id)) <= 1

\* an upvote is pending, its delta of +1 is shown and the button is disabled
C6_Witness ==
    \E id \in 1..MaxOpinions :
        /\ Len(actions[id]) = 1
        /\ actions[id][1].mode = "up"
        /\ actions[id][1].stage = "committing"
        /\ optimisticVotes(id) - votesOf(id) = 1
        /\ upvoteDisabled(id)

\* C7: at most one vote action per opinion is unsettled at any time, and a
\* vote action starts only when none is unsettled for its opinion.
C7_OneActionPerItem ==
    [][\A id \in 1..MaxOpinions :
          /\ Len(actions'[id]) <= 1
          /\ Len(actions'[id]) > Len(actions[id]) => actions[id] = <<>>]_vars

\* a downvote is pending: the upvote button is disabled although no upvote
\* is pending
C7_Witness ==
    \E id \in 1..MaxOpinions :
        /\ Len(actions[id]) = 1
        /\ downvotePending(id)
        /\ ~upvotePending(id)
        /\ upvoteDisabled(id)
        /\ downvoteDisabled(id)

\* C8: every pending vote action is eventually reconciled, its shadow being
\* dropped in one step and only after its commit was confirmed or failed, and
\* whenever no action is pending for an opinion the count shown equals the
\* store's.
C8_EventuallyReconciled ==
    /\ [](\A id \in 1..MaxOpinions :
            actions[id] = <<>> => optimisticVotes(id) = votesOf(id))
    /\ [][\A id \in 1..MaxOpinions :
            Len(actions'[id]) < Len(actions[id]) =>
                /\ Len(actions[id]) = 1
                /\ actions[id][1].stage \in {"resolved", "rejected"}
                /\ optimisticVotes(id)' = votesOf(id)']_vars
    /\ \A id \in 1..MaxOpinions :
            (actions[id] # <<>>) ~> (actions[id] = <<>>)

\* after a confirmed upvote nothing is pending and the store's new count shows
C8_Witness ==
    \E id \in 1..MaxOpinions :
        /\ actions[id] = <<>>
        /\ votesOf(id) = 1
        /\ optimisticVotes(id) = 1

====
